---------------------------- MODULE Spec2Model ----------------------------
(***************************************************************************)
(* A model of pdf2epub.py: the conversion of a PDF into a single-chapter   *)
(* EPUB.  pdf_to_epub is modelled as a step machine (one action per loop   *)
(* iteration or straight-line stretch of the function); the pure helpers   *)
(* clean_chinese_text, render_page_as_image's box selection and the        *)
(* heading/paragraph classifier are operators, each also exercised by a    *)
(* specification of its own that draws its inputs from bounded sets.       *)
(*                                                                         *)
(* Strings the program formats (file names, identifiers, src paths) are    *)
(* sequences of string tokens, decimal digits being one token each.        *)
(* Text handed to clean_chinese_text is a sequence of character classes.   *)
(***************************************************************************)
EXTENDS Integers, Sequences, FiniteSets, TLC

VARIABLES
    pc,                           \* position in pdf_to_epub, or in a function's run
    npages,                       \* number of pages zip(reader.pages, doc_fitz) yields
    word_threshold,               \* argument of pdf_to_epub
    page_num,                     \* loop variable of the page loop
    word_count,                   \* local: words of the current page's text
    xobj,                         \* local: the XObject of the current iteration
    xidx,                         \* XObjects iterated so far, all pages together
    pidx,                         \* paragraphs of the current page iterated so far
    is_first_para_after_heading,
    embedded_image_counter,
    fullpage_image_counter,
    book,                         \* items added with book.add_item, in order
    html_content,                 \* chapter markup: a sequence of blocks
    page_html,                    \* local: markup of the current page
    embedded_html,                \* local: embedded-image blocks of the page
    output,                       \* the packages epub.write_epub has written
    text,                         \* argument of clean_chinese_text
    cleaned,                      \* clean_chinese_text(text)
    recleaned,                    \* clean_chinese_text(cleaned)
    page_fitz,                    \* argument of render_page_as_image
    rect,                         \* local of render_page_as_image: the clip
    combined                      \* the cleaned paragraph handed to the classifier

vars == <<pc, npages, word_threshold, page_num, word_count, xobj, xidx, pidx,
          is_first_para_after_heading, embedded_image_counter,
          fullpage_image_counter, book, html_content, page_html, embedded_html,
          output, text, cleaned, recleaned, page_fitz, rect, combined>>

\* The variables only the specifications of the pure functions use.
functionVars == <<text, cleaned, recleaned, page_fitz, rect, combined>>

None == "None"

----------------------------------------------------------------------------
(* Bounds of the model *)

MaxPages == 2       \* pages of the input document
MaxXObjects == 2    \* XObjects in the resource dictionaries of the document
MaxParas == 3       \* paragraphs in the extracted text of the document
MaxLen == 5         \* characters of a string handed to clean_chinese_text

----------------------------------------------------------------------------
(* clean_chinese_text *)

\* Character classes: an ASCII letter, the space U+0020, another ASCII
\* whitespace character (tab, newline), a CJK ideograph, and the ideographic
\* space U+3000, which is at once whitespace (\s) and inside chinese_pattern.
Chars == {"a", " ", "t", "c", "i"}

IsWhitespace(ch) == ch \in {" ", "t", "i"}

IsChinese(ch) == ch \in {"c", "i"}

RECURSIVE RunLen(_, _)
\* Length of the longest prefix of s whose characters are all in set S.
RunLen(s, S) ==
    IF s = <<>> \/ s[1] \notin S THEN 0 ELSE 1 + RunLen(Tail(s), S)

RECURSIVE CollapseWhitespace(_)
\* re.sub(r'\s{2,}', ' ', text)
CollapseWhitespace(s) ==
    IF s = <<>> THEN <<>>
    ELSE LET k == RunLen(s, {ch \in Chars : IsWhitespace(ch)})
         IN  IF k >= 2
             THEN <<" ">> \o CollapseWhitespace(SubSeq(s, k + 1, Len(s)))
             ELSE <<s[1]>> \o CollapseWhitespace(Tail(s))

RECURSIVE SqueezeChinese(_)
\* re.sub('(chinese) +(chinese)', r'\1\2', text): leftmost non-overlapping
\* matches; ' +' is greedy and can give nothing back to a chinese character.
SqueezeChinese(s) ==
    IF s = <<>> THEN <<>>
    ELSE LET k == RunLen(Tail(s), {" "})
         IN  IF IsChinese(s[1]) /\ k >= 1 /\ Len(s) >= k + 2 /\ IsChinese(s[k + 2])
             THEN <<s[1], s[k + 2]>> \o SqueezeChinese(SubSeq(s, k + 3, Len(s)))
             ELSE <<s[1]>> \o SqueezeChinese(Tail(s))

RECURSIVE LStrip(_)
LStrip(s) == IF s # <<>> /\ IsWhitespace(s[1]) THEN LStrip(Tail(s)) ELSE s

RECURSIVE RStrip(_)
RStrip(s) ==
    IF s # <<>> /\ IsWhitespace(s[Len(s)]) THEN RStrip(SubSeq(s, 1, Len(s) - 1)) ELSE s

\* str.strip()
Strip(s) == RStrip(LStrip(s))

\* The function with the second squeeze pass left out.
clean_chinese_text_one_pass(s) == Strip(SqueezeChinese(CollapseWhitespace(s)))

clean_chinese_text(s) ==
    Strip(SqueezeChinese(SqueezeChinese(CollapseWhitespace(s))))

Strings == UNION {[1..n -> Chars] : n \in 0..MaxLen}

----------------------------------------------------------------------------
(* String formatting *)

DigitChar == <<"0", "1", "2", "3", "4", "5", "6", "7", "8", "9">>

RECURSIVE Digits(_)
\* f"{n}": the decimal digits of n, most significant first.
Digits(n) ==
    IF n < 10 THEN <<DigitChar[n + 1]>>
    ELSE Digits(n \div 10) \o <<DigitChar[(n % 10) + 1]>>

\* f"{n:03d}": the decimal digits of n, zero-padded to at least three.
Pad3(n) ==
    LET d == Digits(n)
    IN  IF Len(d) >= 3 THEN d ELSE [i \in 1..(3 - Len(d)) |-> "0"] \o d

FullpageFileName(n) == <<"images/fullpage_">> \o Pad3(n) \o <<".jpg">>

FullpageUid(counter) == <<"fullpage_">> \o Digits(counter)

\* The file name without the running counter.
EmbeddedFileNamePageOnly(n, counter) ==
    <<"images/embedded_">> \o Pad3(n) \o <<".jpg">>

EmbeddedFileName(n, counter) ==
    <<"images/embedded_">> \o Pad3(n) \o <<"_">> \o Pad3(counter) \o <<".jpg">>

EmbeddedUid(counter) == <<"embedded_">> \o Digits(counter)

\* src="{filename}"
FullpageSrc(filename) == filename

\* src="../{filename}"
EmbeddedSrc(filename) == <<"../">> \o filename

Item(uid, file_name, media_type) ==
    [uid |-> uid, file_name |-> file_name, media_type |-> media_type]

style_css == Item(<<"style_css">>, <<"style/style.css">>, "text/css")

ChapterItem == Item(<<"chapter">>, <<"content.xhtml">>, "application/xhtml+xml")

NavItem == Item(<<"nav">>, <<"nav.xhtml">>, "application/xhtml+xml")

NcxItem == Item(<<"ncx">>, <<"toc.ncx">>, "application/x-dtbncx+xml")

\* One block of markup.  idx is the position of the block's source in its
\* page (a paragraph's position in the text) or, for an embedded image, the
\* counter printed in its alt text.
Block(tag, n, src, idx) == [tag |-> tag, page |-> n, src |-> src, idx |-> idx]

TitleBlock == Block("h1", 0, <<>>, 0)

FullpageBlock(n, filename) == Block("fullpage-img", n, FullpageSrc(filename), n)

EmbeddedBlock(n, filename, counter) ==
    Block("inline-img", n, EmbeddedSrc(filename), counter)

----------------------------------------------------------------------------
(* render_page_as_image *)

BoxNames == {"bleedbox", "trimbox", "cropbox", "mediabox"}

Rect(x0, y0, x1, y1) == [x0 |-> x0, y0 |-> y0, x1 |-> x1, y1 |-> y1]

\* Rect.is_empty: no area.
IsEmpty(r) == r.x0 >= r.x1 \/ r.y0 >= r.y1

RectInputs == {Rect(0, 0, 0, 0), Rect(0, 0, 3, 3), Rect(1, 1, 2, 2), Rect(1, 0, 2, 3)}

PageInputs == [BoxNames -> RectInputs]

\* The selection with crop box and trim box in each other's place.
ClipRectCropFirst(page) ==
    IF ~IsEmpty(page["bleedbox"]) THEN page["bleedbox"]
    ELSE IF ~IsEmpty(page["cropbox"]) THEN page["cropbox"]
    ELSE IF ~IsEmpty(page["trimbox"]) THEN page["trimbox"]
    ELSE page["mediabox"]

ClipRect(page) ==
    IF ~IsEmpty(page["bleedbox"]) THEN page["bleedbox"]
    ELSE IF ~IsEmpty(page["trimbox"]) THEN page["trimbox"]
    ELSE IF ~IsEmpty(page["cropbox"]) THEN page["cropbox"]
    ELSE page["mediabox"]

----------------------------------------------------------------------------
(* The paragraph classifier *)

\* A cleaned paragraph, by the number of its characters that are uppercase,
\* lowercase, titlecase and not cased.
Para(u, l, t, n) == [upper |-> u, lower |-> l, title |-> t, uncased |-> n]

ParaLen(p) == p.upper + p.lower + p.title + p.uncased

\* str.isupper(): no lowercase or titlecase character and at least one
\* uppercase character.
IsUpper(p) == p.lower = 0 /\ p.title = 0 /\ p.upper > 0

HeadingMaxLen == 150

H2MaxLen == 80

\* The heading test with the length bound included.
IsHeadingInclusive(p) == ParaLen(p) <= HeadingMaxLen /\ IsUpper(p)

IsHeading(p) == ParaLen(p) < HeadingMaxLen /\ IsUpper(p)

ParagraphTag(p, first) ==
    IF IsHeading(p)
    THEN IF ParaLen(p) < H2MaxLen THEN "h2" ELSE "h3"
    ELSE IF first THEN "noindent" ELSE "indent"

\* The flag left as it was by a body paragraph.
FlagAfterParagraphSticky(p, first) == IF IsHeading(p) THEN TRUE ELSE first

FlagAfterParagraph(p, first) == IF IsHeading(p) THEN TRUE ELSE FALSE

CharCounts == {0, 1, 79, 80, 149, 150}

ParaInputs ==
    {p \in {Para(u, l, t, n) : u \in CharCounts, l \in {0, 1}, t \in {0, 1},
                               n \in CharCounts} : ParaLen(p) > 0}

\* The paragraphs the conversion pipeline is run on: a short and a long
\* heading, a body paragraph and a paragraph of uncased characters only.
PipelineParas == {Para(50, 0, 0, 0), Para(100, 0, 0, 5), Para(3, 60, 0, 10),
                  Para(0, 0, 0, 40)}

----------------------------------------------------------------------------
(* Embedded images *)

\* The XObjects of a page's resource dictionary, by what happens to them:
\*   form          its /Subtype is not /Image
\*   unreadable    reading its _data raises
\*   empty         its _data is empty
\*   unidentified  Image.open raises UnidentifiedImageError
\*   damaged       Image.open, convert or save raises another exception
\*   image         it decodes
XObjectKinds == {"form", "unreadable", "empty", "unidentified", "damaged", "image"}

IsImageSubtype(x) == x # "form"

\* xobj._data: "raise" where the read raises, "" for no bytes.
RawData(x) ==
    IF x = "unreadable" THEN "raise" ELSE IF x = "empty" THEN "" ELSE x

\* process_image: (img_data, media_type), None for both on any exception.
process_image(raw_data) ==
    IF raw_data = "image"
    THEN [img_data |-> "jpeg", media_type |-> "image/jpeg"]
    ELSE [img_data |-> None, media_type |-> None]

\* The test without a look at what process_image returns.
IsAddedUnchecked(x) ==
    IsImageSubtype(x) /\ RawData(x) # "raise" /\ RawData(x) # ""

\* Lines 133-144: the XObject passes every `continue` of the loop body.
IsAdded(x) ==
    /\ IsImageSubtype(x)
    /\ RawData(x) # "raise"
    /\ RawData(x) # ""
    /\ process_image(RawData(x)).img_data # None

----------------------------------------------------------------------------
(* pdf_to_epub *)

WordCounts == {0, 150}

Thresholds == {0, 100}

\* The test as the comment of line 114 reads.
AddsFullPageIfLowText(wc, threshold) == wc < threshold

\* Line 114 is a comment: no test of the word count guards lines 115-124.
AddsFullPage(wc, threshold) == TRUE

Init ==
    /\ pc = "start"
    /\ word_threshold \in Thresholds
    /\ npages = 0
    /\ page_num = 0
    /\ word_count = 0
    /\ xobj = None
    /\ xidx = 0
    /\ pidx = 0
    /\ is_first_para_after_heading = TRUE
    /\ embedded_image_counter = 0
    /\ fullpage_image_counter = 0
    /\ book = <<>>
    /\ html_content = <<>>
    /\ page_html = <<>>
    /\ embedded_html = <<>>
    /\ output = <<>>
    /\ text = <<>>
    /\ cleaned = <<>>
    /\ recleaned = <<>>
    /\ page_fitz = [b \in BoxNames |-> Rect(0, 0, 0, 0)]
    /\ rect = Rect(0, 0, 0, 0)
    /\ combined = Para(0, 0, 0, 0)

\* Lines 59-103: both readers open; the book, its stylesheet and the title.
OpenInput ==
    /\ pc = "start"
    /\ \E n \in 0..MaxPages : npages' = n
    /\ book' = <<style_css>>
    /\ html_content' = <<TitleBlock>>
    /\ is_first_para_after_heading' = TRUE
    /\ embedded_image_counter' = 0
    /\ fullpage_image_counter' = 0
    /\ pc' = "loop"
    /\ UNCHANGED <<word_threshold, page_num, word_count, xobj, xidx, pidx,
                   page_html, embedded_html, output, functionVars>>

\* Lines 59-60: PdfReader or fitz.open raises.
OpenFails ==
    /\ pc = "start"
    /\ pc' = "aborted"
    /\ UNCHANGED <<npages, word_threshold, page_num, word_count, xobj, xidx, pidx,
                   is_first_para_after_heading, embedded_image_counter,
                   fullpage_image_counter, book, html_content, page_html,
                   embedded_html, output, functionVars>>

\* The loop left one page early.
LoopExhaustedOneEarly(n, total) == n + 1 >= total

\* Line 105: the page loop has run through every page.
LoopExhausted(n, total) == n >= total

\* Lines 105-127: the next page, its text, its full-page image.
BeginPage ==
    /\ pc = "loop"
    /\ ~LoopExhausted(page_num, npages)
    /\ page_num' = page_num + 1
    /\ \E wc \in WordCounts : word_count' = wc
    /\ IF AddsFullPage(word_count', word_threshold)   \* always: see AddsFullPage
       THEN /\ fullpage_image_counter' = fullpage_image_counter + 1
            /\ book' = Append(book, Item(FullpageUid(fullpage_image_counter'),
                                         FullpageFileName(page_num'), "image/jpeg"))
            /\ page_html' = <<FullpageBlock(page_num', FullpageFileName(page_num'))>>
       ELSE /\ page_html' = <<>>
            /\ UNCHANGED <<fullpage_image_counter, book>>
    /\ embedded_html' = <<>>
    /\ pidx' = 0
    /\ UNCHANGED xidx
    /\ pc' = "xobjects"
    /\ UNCHANGED <<npages, word_threshold, xobj, is_first_para_after_heading,
                   embedded_image_counter, html_content, output, functionVars>>

\* Lines 105-116: render_page_as_image raises; nothing catches it.
RenderFails ==
    /\ pc = "loop"
    /\ ~LoopExhausted(page_num, npages)
    /\ page_num' = page_num + 1
    /\ \E wc \in WordCounts : word_count' = wc
    /\ page_html' = <<>>
    /\ fullpage_image_counter' = fullpage_image_counter + 1
    /\ pc' = "aborted"
    /\ UNCHANGED <<npages, word_threshold, xobj, xidx, pidx,
                   is_first_para_after_heading, embedded_image_counter, book,
                   html_content, embedded_html, output, functionVars>>

\* Lines 131-153: one iteration of the loop over the page's XObjects.
NextXObject ==
    /\ pc = "xobjects"
    /\ xidx < MaxXObjects
    /\ \E x \in XObjectKinds : xobj' = x
    /\ xidx' = xidx + 1
    /\ IF IsAdded(xobj')
       THEN /\ embedded_image_counter' = embedded_image_counter + 1
            /\ book' = Append(book,
                   Item(EmbeddedUid(embedded_image_counter'),
                        EmbeddedFileName(page_num, embedded_image_counter'),
                        process_image(RawData(xobj')).media_type))
            /\ embedded_html' = Append(embedded_html,
                   EmbeddedBlock(page_num,
                                 EmbeddedFileName(page_num, embedded_image_counter'),
                                 embedded_image_counter'))
       ELSE UNCHANGED <<embedded_image_counter, book, embedded_html>>
    /\ UNCHANGED <<pc, npages, word_threshold, page_num, word_count, pidx,
                   is_first_para_after_heading, fullpage_image_counter,
                   html_content, page_html, output, functionVars>>

\* Lines 128-131, 155-160: no (more) XObjects; on to the page's text.
XObjectsDone ==
    /\ pc = "xobjects"
    /\ pc' = "text"
    /\ UNCHANGED <<npages, word_threshold, page_num, word_count, xobj, xidx, pidx,
                   is_first_para_after_heading, embedded_image_counter,
                   fullpage_image_counter, book, html_content, page_html,
                   embedded_html, output, functionVars>>

\* Lines 168-179: the block of paragraph p, and the flag after it.
EmitParagraph(p, idx) ==
    /\ page_html' = Append(page_html,
           Block(ParagraphTag(p, is_first_para_after_heading), page_num, <<>>, idx))
    /\ is_first_para_after_heading' =
           FlagAfterParagraph(p, is_first_para_after_heading)

TextTags == {"h2", "h3", "noindent", "indent"}

TextBlocks(html) ==
    Cardinality({i \in 1..Len(html) : html[i].tag \in TextTags})

\* Lines 161-179: one paragraph of the page's text, cleaned and classified.
NextParagraph ==
    /\ pc = "text"
    /\ TextBlocks(html_content \o page_html) < MaxParas
    /\ pidx' = pidx + 1
    /\ \E p \in PipelineParas : EmitParagraph(p, pidx')
    /\ UNCHANGED <<pc, npages, word_threshold, page_num, word_count, xobj, xidx,
                   embedded_image_counter, fullpage_image_counter, book,
                   html_content, embedded_html, output, functionVars>>

\* The page's markup put together with the embedded images ahead of the text.
PageMarkupImagesFirst(html, emb) ==
    IF html = <<>> THEN emb ELSE <<Head(html)>> \o emb \o Tail(html)

\* Line 182.
PageMarkup(html, emb) == html \o emb

\* Lines 182-185: the page's markup joins the chapter's.
EndPage ==
    /\ pc = "text"
    /\ page_html' = PageMarkup(page_html, embedded_html)
    /\ html_content' = html_content \o page_html'
    /\ pc' = "loop"
    /\ UNCHANGED <<npages, word_threshold, page_num, word_count, xobj, xidx, pidx,
                   is_first_para_after_heading, embedded_image_counter,
                   fullpage_image_counter, book, embedded_html, output,
                   functionVars>>

\* Lines 188-201: the chapter, the navigation, and the one write.
Finalize ==
    /\ pc = "loop"
    /\ LoopExhausted(page_num, npages)
    /\ book' = book \o <<ChapterItem, NavItem, NcxItem>>
    /\ output' = Append(output, [items |-> book', chapter |-> html_content])
    /\ pc' = "done"
    /\ UNCHANGED <<npages, word_threshold, page_num, word_count, xobj, xidx, pidx,
                   is_first_para_after_heading, embedded_image_counter,
                   fullpage_image_counter, html_content, page_html,
                   embedded_html, functionVars>>

Next ==
    \/ OpenInput
    \/ OpenFails
    \/ BeginPage
    \/ RenderFails
    \/ NextXObject
    \/ XObjectsDone
    \/ NextParagraph
    \/ EndPage
    \/ Finalize

Spec == Init /\ [][Next]_vars

----------------------------------------------------------------------------
(* clean_chinese_text applied to a string, and again to its result *)

\* The state before pdf_to_epub is entered, whatever its threshold.
Idle ==
    /\ word_threshold \in Thresholds
    /\ npages = 0
    /\ page_num = 0
    /\ word_count = 0
    /\ xobj = None
    /\ xidx = 0
    /\ pidx = 0
    /\ embedded_image_counter = 0
    /\ fullpage_image_counter = 0
    /\ book = <<>>
    /\ html_content = <<>>
    /\ embedded_html = <<>>
    /\ output = <<>>

pipelineVars == <<npages, word_threshold, page_num, word_count, xobj, xidx, pidx,
                  embedded_image_counter, fullpage_image_counter, book,
                  html_content, embedded_html, output>>

InitClean ==
    /\ Idle
    /\ pc = "clean"
    /\ text \in Strings
    /\ cleaned = <<>>
    /\ recleaned = <<>>
    /\ is_first_para_after_heading = TRUE
    /\ page_html = <<>>
    /\ page_fitz = [b \in BoxNames |-> Rect(0, 0, 0, 0)]
    /\ rect = Rect(0, 0, 0, 0)
    /\ combined = Para(0, 0, 0, 0)

CleanOnce ==
    /\ pc = "clean"
    /\ cleaned' = clean_chinese_text(text)
    /\ pc' = "cleaned"
    /\ UNCHANGED <<pipelineVars, text, recleaned, is_first_para_after_heading,
                   page_html, page_fitz, rect, combined>>

CleanAgain ==
    /\ pc = "cleaned"
    /\ recleaned' = clean_chinese_text(cleaned)
    /\ pc' = "recleaned"
    /\ UNCHANGED <<pipelineVars, text, cleaned, is_first_para_after_heading,
                   page_html, page_fitz, rect, combined>>

NextClean == CleanOnce \/ CleanAgain

SpecClean == InitClean /\ [][NextClean]_vars

----------------------------------------------------------------------------
(* render_page_as_image applied to a page *)

InitRender ==
    /\ Idle
    /\ pc = "render"
    /\ page_fitz \in PageInputs
    /\ rect = Rect(0, 0, 0, 0)
    /\ text = <<>>
    /\ cleaned = <<>>
    /\ recleaned = <<>>
    /\ is_first_para_after_heading = TRUE
    /\ page_html = <<>>
    /\ combined = Para(0, 0, 0, 0)

\* Lines 40-51: the clip of the pixmap.
RenderPage ==
    /\ pc = "render"
    /\ rect' = ClipRect(page_fitz)
    /\ pc' = "rendered"
    /\ UNCHANGED <<pipelineVars, text, cleaned, recleaned,
                   is_first_para_after_heading, page_html, page_fitz, combined>>

NextRender == RenderPage

SpecRender == InitRender /\ [][NextRender]_vars

----------------------------------------------------------------------------
(* The classifier applied to a cleaned paragraph *)

InitClassify ==
    /\ Idle
    /\ pc = "classify"
    /\ combined \in ParaInputs
    /\ is_first_para_after_heading \in BOOLEAN
    /\ page_html = <<>>
    /\ text = <<>>
    /\ cleaned = <<>>
    /\ recleaned = <<>>
    /\ page_fitz = [b \in BoxNames |-> Rect(0, 0, 0, 0)]
    /\ rect = Rect(0, 0, 0, 0)

ClassifyParagraph ==
    /\ pc = "classify"
    /\ EmitParagraph(combined, 1)
    /\ pc' = "classified"
    /\ UNCHANGED <<pipelineVars, text, cleaned, recleaned, page_fitz, rect, combined>>

NextClassify == ClassifyParagraph

SpecClassify == InitClassify /\ [][NextClassify]_vars

----------------------------------------------------------------------------
(* Properties *)

IsFullpageItem(it) == Head(it.uid) = "fullpage_"

IsEmbeddedItem(it) == Head(it.uid) = "embedded_"

IsImageItem(it) == it.media_type = "image/jpeg"

FullpageItems == SelectSeq(book, IsFullpageItem)

ImageItems == SelectSeq(book, IsImageItem)

\* The markup produced so far, the page in progress included.
AllBlocks ==
    IF pc \in {"xobjects", "text"} THEN html_content \o page_html ELSE html_content

\* Pages whose markup has joined the chapter's.
PagesDone ==
    IF pc \in {"loop", "done"} THEN page_num
    ELSE IF pc \in {"xobjects", "text", "aborted"} /\ page_num > 0 THEN page_num - 1
    ELSE 0

HeadingTags == {"h2", "h3"}

BodyTags == {"noindent", "indent"}

ImageTags == {"fullpage-img", "inline-img"}

IsTextBlock(b) == b.tag \in TextTags

C2_ImageNamesUnique ==
    LET im == ImageItems
    IN  \A i, j \in 1..Len(im) :
            i < j => /\ im[i].file_name # im[j].file_name
                     /\ im[i].uid # im[j].uid

\* Two embedded images of one page, one XObject skipped or not, in a finished
\* two-page conversion.
C2_Witness ==
    /\ pc = "done"
    /\ npages >= 2
    /\ Len(embedded_html) >= 2
    /\ Len(ImageItems) >= 4

\* C3: clean_chinese_text is idempotent: cleaning a cleaned string changes
\* nothing.
C3_CleanIdempotent == pc = "recleaned" => recleaned = cleaned

\* A string with three CJK characters a space apart, which takes both squeeze
\* passes, cleaned twice.
C3_Witness ==
    /\ pc = "recleaned"
    /\ \E i \in 1..(Len(text) - 4) : SubSeq(text, i, i + 4) = <<"c", " ", "c", " ", "c">>
    /\ cleaned = <<"c", "c", "c">>

\* The tag the classifier gave the paragraph.
ClassifiedTag == page_html[Len(page_html)].tag

\* C4 as stated: a paragraph is a heading exactly when it is under 150
\* characters long and has no lowercase letter (every character is uppercase
\* or not cased), h2 under 80 characters and h3 from 80 to 149; every other
\* paragraph is a body paragraph.
C4_HeadingIffNoLowercase ==
    pc = "classified" =>
        LET n == ParaLen(combined)
            uncasedOrUpper == combined.lower = 0 /\ combined.title = 0
        IN  /\ ClassifiedTag = "h2" <=> (n < 80 /\ uncasedOrUpper)
            /\ ClassifiedTag = "h3" <=> (80 <= n /\ n < 150 /\ uncasedOrUpper)
            /\ ClassifiedTag \in BodyTags <=> ~(n < 150 /\ uncasedOrUpper)

\* C4 as amended: a paragraph is a heading exactly when it is under 150
\* characters long, has at least one uppercase letter and has no lowercase or
\* titlecase letter, h2 under 80 characters and h3 from 80 to 149; every
\* other paragraph, one without any cased character included, is a body
\* paragraph.
C4_HeadingIffUppercase ==
    pc = "classified" =>
        LET n == ParaLen(combined)
            upperOnly == combined.upper >= 1 /\ combined.lower = 0 /\ combined.title = 0
        IN  /\ ClassifiedTag = "h2" <=> (n < 80 /\ upperOnly)
            /\ ClassifiedTag = "h3" <=> (80 <= n /\ n < 150 /\ upperOnly)
            /\ ClassifiedTag \in BodyTags <=> ~(n < 150 /\ upperOnly)

\* A short paragraph without any cased character, classified as a body
\* paragraph.
C4_Witness ==
    /\ pc = "classified"
    /\ ParaLen(combined) < 80
    /\ combined.upper = 0 /\ combined.lower = 0 /\ combined.title = 0
    /\ ClassifiedTag \in BodyTags

\* The heading and paragraph blocks produced so far, in order.
TextBlockSeq == SelectSeq(AllBlocks, IsTextBlock)

\* C5 as stated: a body paragraph is rendered noindent exactly when it is
\* the first text block of its page or the text block before it is a heading.
C5_NoIndentAfterHeadingOrPageStart ==
    LET t == TextBlockSeq
    IN  \A i \in 1..Len(t) :
            t[i].tag \in BodyTags =>
                (t[i].tag = "noindent" <=>
                    \/ i = 1
                    \/ t[i - 1].page # t[i].page
                    \/ t[i - 1].tag \in HeadingTags)

\* C5 as amended: a body paragraph is rendered noindent exactly when it is
\* the first text block of the document or the text block before it, on its
\* page or on an earlier one, is a heading.
C5_NoIndentAfterHeadingOrDocumentStart ==
    LET t == TextBlockSeq
    IN  \A i \in 1..Len(t) :
            t[i].tag \in BodyTags =>
                (t[i].tag = "noindent" <=>
                    \/ i = 1
                    \/ t[i - 1].tag \in HeadingTags)

\* A heading, the body paragraph after it, and on the next page a body
\* paragraph that opens the page and is indented.
C5_Witness ==
    /\ Len(TextBlockSeq) = 3
    /\ TextBlockSeq[1].tag \in HeadingTags
    /\ TextBlockSeq[2].tag = "noindent"
    /\ TextBlockSeq[3].tag = "indent"
    /\ TextBlockSeq[3].page # TextBlockSeq[2].page

UndecodableKinds == {"unreadable", "empty", "unidentified", "damaged"}

\* C6: an iteration of the XObject loop over an image that does not decode
\* adds no resource and no markup, leaves embedded_image_counter alone, and
\* leaves the loop going: the next XObject, the page's text and the later
\* pages are still to come.
C6_UndecodableImageSkipped ==
    [][(pc = "xobjects" /\ xidx' = xidx + 1 /\ xobj' \in UndecodableKinds) =>
           /\ book' = book
           /\ embedded_html' = embedded_html
           /\ page_html' = page_html
           /\ html_content' = html_content
           /\ embedded_image_counter' = embedded_image_counter
           /\ output' = output
           /\ pc' = "xobjects"]_vars

\* A finished two-page conversion whose last XObject did not decode, with the
\* image decoded before it and the text of its page in the chapter written.
C6_Witness ==
    /\ pc = "done"
    /\ npages >= 2
    /\ xobj \in UndecodableKinds
    /\ xidx = 2
    /\ embedded_image_counter = 1
    /\ Len(SelectSeq(output[1].items, IsEmbeddedItem)) = 1
    /\ \E i \in 1..Len(html_content) : html_content[i].tag \in TextTags

BoxPriority == <<"bleedbox", "trimbox", "cropbox">>

\* C7: the page is clipped to the first non-empty of bleed box, trim box and
\* crop box, and to the media box when those three are empty.
C7_FirstNonEmptyBox ==
    pc = "rendered" =>
        /\ \A i \in 1..3 :
              (/\ ~IsEmpty(page_fitz[BoxPriority[i]])
               /\ \A j \in 1..(i - 1) : IsEmpty(page_fitz[BoxPriority[j]]))
              => rect = page_fitz[BoxPriority[i]]
        /\ (\A i \in 1..3 : IsEmpty(page_fitz[BoxPriority[i]]))
              => rect = page_fitz["mediabox"]

\* A page with an empty bleed box and a trim box that is not empty and is
\* neither its crop box nor its media box, clipped to the trim box.
C7_Witness ==
    /\ pc = "rendered"
    /\ IsEmpty(page_fitz["bleedbox"])
    /\ ~IsEmpty(page_fitz["trimbox"])
    /\ ~IsEmpty(page_fitz["cropbox"])
    /\ page_fitz["trimbox"] # page_fitz["cropbox"]
    /\ page_fitz["trimbox"] # page_fitz["mediabox"]
    /\ rect = page_fitz["trimbox"]

\* Where a block stands within its page: image of the page, text, embedded.
Rank(b) ==
    IF b.tag = "fullpage-img" THEN 0 ELSE IF b.tag \in TextTags THEN 1 ELSE 2

\* The blocks of page n in the chapter markup.
PageBlocks(n) == SelectSeq(html_content, LAMBDA b : b.page = n)

\* C8: in the chapter markup the blocks of a page precede those of the next,
\* and each finished page shows one full-page image block first, then its
\* text blocks in the order of the text, then its embedded-image blocks in
\* the order of extraction; what is written is that markup.
C8_MarkupOrder ==
    LET h == html_content
    IN  /\ \A i \in 1..(Len(h) - 1) :
              /\ h[i].page <= h[i + 1].page
              /\ h[i].page = h[i + 1].page =>
                    /\ Rank(h[i]) <= Rank(h[i + 1])
                    /\ Rank(h[i]) = Rank(h[i + 1]) => h[i].idx < h[i + 1].idx
        /\ \A i \in 1..Len(h) :
              /\ h[i].page <= PagesDone
              /\ h[i].tag = "fullpage-img" <=> (i > 1 /\ h[i - 1].page < h[i].page)
              /\ (h[i].tag \in TextTags /\ h[i - 1].tag \notin TextTags) => h[i].idx = 1
              /\ (h[i].tag \in TextTags /\ h[i - 1].tag \in TextTags) =>
                    h[i].idx = h[i - 1].idx + 1
        /\ \A n \in 1..PagesDone : \E i \in 1..Len(h) : h[i].page = n
        /\ pc = "done" => output[1].chapter = h

\* A finished two-page conversion with text and an embedded image on one page
\* and an embedded image on the other.
C8_Witness ==
    /\ pc = "done"
    /\ npages >= 2
    /\ \E n \in 1..2 :
          /\ Len(SelectSeq(PageBlocks(n), IsTextBlock)) >= 2
          /\ \E k \in 1..Len(PageBlocks(n)) : PageBlocks(n)[k].tag = "inline-img"
    /\ \A n \in 1..2 :
          \E k \in 1..Len(PageBlocks(n)) : PageBlocks(n)[k].tag = "inline-img"

\* C9: the output is written at most once, and only by a conversion that ran
\* through every page: then the chapter written holds one full-page image
\* block for each page of the input; a conversion that aborted, at the open or
\* at a page's rendering, has written nothing.
C9_WrittenOnceAtTheEnd ==
    /\ Len(output) <= 1
    /\ pc = "done" <=> Len(output) = 1
    /\ pc = "aborted" => output = <<>>
    /\ Len(output) = 1 =>
          /\ page_num = npages
          /\ \A n \in 1..npages :
                \E k \in 1..Len(output[1].chapter) :
                    /\ output[1].chapter[k].page = n
                    /\ output[1].chapter[k].tag = "fullpage-img"

\* A conversion aborted by the rendering of its second page: the first page's
\* image is in the book and nothing is written.
C9_Witness ==
    /\ pc = "aborted"
    /\ page_num = 2
    /\ Len(FullpageItems) = 1
    /\ output = <<>>

\* C10: every image block of the chapter markup has as src the file name of
\* a resource of the package.
C10_SrcIsResourceFileName ==
    \A i \in 1..Len(AllBlocks) :
        AllBlocks[i].tag \in ImageTags =>
            \E k \in 1..Len(book) : book[k].file_name = AllBlocks[i].src

====
